---------------------------- MODULE Spec2Model ----------------------------
(***************************************************************************)
(* A model of hnlplayer/hnl.py: the playlist table model (PlaylistModel),  *)
(* the drag-and-drop handlers that drive it (PlaylistModel.dropMimeData,   *)
(* PlaylistTableView.dropEvent, is_contiguous), the column definition      *)
(* (PlaylistColumn) and the column-configuration layout                    *)
(* (ColumnConfigurationLayout).                                            *)
(*                                                                         *)
(* Rows are 0-based, as in the source; a Python list is a TLA+ sequence,   *)
(* so the record at row r is tracks[r + 1].                                *)
(***************************************************************************)
EXTENDS Integers, Sequences, FiniteSets, TLC

\* ------------------------------------------------------------------ bounds

\* Longest track list the model builds.
MaxLen == 4

\* Number of distinct track records.
NumTracks == 3

\* Most columns the configuration layout holds.
MaxCols == 3

TrackNames == <<"A", "B", "C", "D", "E", "F">>

Tracks == {TrackNames[i] : i \in 1..NumTracks}

\* ------------------------------------------------------------------ state

VARIABLES
  tracks,        \* PlaylistModel._tracks
  old,           \* _tracks as it was when the last operation was called
  columns,       \* ColumnConfigurationLayout.columns
  oldColumns,    \* columns as they were when the last handler was called
  currentRow,    \* row of selectionModel.currentIndex(), -1 when invalid
  deleteEnabled, \* deleteButton.isEnabled()
  op,            \* the last operation called, with its arguments
  err,           \* the exception the last operation raised, or "none"
  signals,       \* what the last operation did to the model, in order: the
                 \* notifications it sent and its changes of _tracks
  nowPlaying,    \* PlaylistTableView.nowPlaying
  played         \* the record play() selected, "none" before any play()

vars == <<tracks, old, columns, oldColumns, currentRow, deleteEnabled, op, err,
          signals, nowPlaying, played>>

playVars == <<nowPlaying, played>>

listVars == <<tracks, old>>

colVars == <<columns, oldColumns, currentRow, deleteEnabled>>

\* --------------------------------------------------- Python list semantics

Min(a, b) == IF a < b THEN a ELSE b

Max(a, b) == IF a > b THEN a ELSE b

\* A slice bound as Python resolves it: negative counts from the end, and
\* the result is clamped into 0..len.
PyClamp(l, i) == IF i < 0 THEN Max(i + Len(l), 0) ELSE Min(i, Len(l))

\* l[a:b]
PySlice(l, a, b) ==
  LET lo == PyClamp(l, a)
      hi == PyClamp(l, b)
  IN  IF hi <= lo THEN <<>> ELSE SubSeq(l, lo + 1, hi)

\* l[a:]
PySliceFrom(l, a) == PySlice(l, a, Len(l))

\* l[:b]
PySliceTo(l, b) == PySlice(l, 0, b)

\* l.insert(i, x): never raises, the index is clamped like a slice bound.
PyInsert(l, i, x) ==
  LET p == PyClamp(l, i)
  IN  PySliceTo(l, p) \o <<x>> \o PySliceFrom(l, p)

\* Whether l[i], del l[i] and l.pop(i) accept the index i.
PyIndexOk(l, i) == -Len(l) <= i /\ i < Len(l)

\* The 0-based position a valid index i denotes.
PyIndex(l, i) == IF i < 0 THEN i + Len(l) ELSE i

\* l after del l[i] (or l.pop(i)), for a valid index i.
PyDelItem(l, i) ==
  LET p == PyIndex(l, i)
  IN  SubSeq(l, 1, p) \o SubSeq(l, p + 2, Len(l))

\* l after del l[a:b]: never raises.
PyDelSlice(l, a, b) ==
  LET lo == PyClamp(l, a)
      hi == PyClamp(l, b)
  IN  IF hi <= lo THEN l ELSE SubSeq(l, 1, lo) \o SubSeq(l, hi + 1, Len(l))

\* The result of an operation on the track list: the list it leaves and the
\* exception it raised.
Ok(l) == [tracks |-> l, err |-> "none"]

Raised(l, e) == [tracks |-> l, err |-> e]

\* ---------------------------------------------------------- PlaylistColumn

\* Format templates: the ones tf.compile accepts and one it rejects.
GoodTemplates == {"", "%track%", "%title%", "%artist%", "%album%"}

BadTemplates == {"$if("}

\* tf.compile(fmt): the formatter of a template it accepts.
Compile(fmt) == [formatter |-> fmt]

CompileOk(fmt) == fmt \in GoodTemplates

\* PlaylistColumn(name, defaultWidth, fmt), for a template that compiles.
PlaylistColumn(name, defaultWidth, fmt) ==
  [name |-> name, defaultWidth |-> defaultWidth, fmt |-> fmt, tfc |-> Compile(fmt)]

\* PlaylistColumn()
NewPlaylistColumn == PlaylistColumn("", 180, "")

\* The fmt setter: _fmt is stored first, then _tfc, unless tf.compile raises.
SetFmt(c, fmt) ==
  IF CompileOk(fmt)
    THEN [col |-> [c EXCEPT !.fmt = fmt, !.tfc = Compile(fmt)], err |-> "none"]
    ELSE [col |-> [c EXCEPT !.fmt = fmt], err |-> "TemplateCompileError"]

\* The columns PlaylistTableView gives its model.
DefaultColumns ==
  << PlaylistColumn("Track", 30, "%track%"),
     PlaylistColumn("Title", 180, "%title%"),
     PlaylistColumn("Artist", 180, "%artist%"),
     PlaylistColumn("Album", 180, "%album%") >>

\* ----------------------------------------------------------- PlaylistModel

\* insertTrack with the normalisation of a negative row left out.
insertTrack_NoNormalise(l, row, track) == Ok(PyInsert(l, row, track))

insertTrack(l, row, track) ==
  LET r == IF row < 0 THEN Len(l) ELSE row
  IN  Ok(PyInsert(l, r, track))

moveRow(l, sourceRow, destinationChild) ==
  IF sourceRow > destinationChild
    THEN IF PyIndexOk(l, sourceRow)
           THEN Ok(PyInsert(PyDelItem(l, sourceRow), destinationChild,
                            l[PyIndex(l, sourceRow) + 1]))
           ELSE Raised(l, "IndexError")
  ELSE IF sourceRow < destinationChild
    THEN IF PyIndexOk(l, sourceRow)
           THEN Ok(PyInsert(PyDelItem(l, sourceRow), destinationChild - 1,
                            l[PyIndex(l, sourceRow) + 1]))
           ELSE Raised(l, "IndexError")
  ELSE Ok(l)

moveRows(l, sourceRow, count, destinationChild) ==
  IF sourceRow > destinationChild
    THEN Ok(PySliceTo(l, destinationChild)
            \o PySlice(l, destinationChild, sourceRow)
            \o PySlice(l, sourceRow, sourceRow + count)
            \o PySliceFrom(l, sourceRow + count))
    ELSE Ok(PySliceTo(l, sourceRow)
            \o PySlice(l, sourceRow, sourceRow + count)
            \o PySlice(l, sourceRow + count, destinationChild)
            \o PySliceFrom(l, destinationChild))

removeRow(l, row) ==
  IF PyIndexOk(l, row) THEN Ok(PyDelItem(l, row)) ELSE Raised(l, "IndexError")

removeRows(l, row, count) == Ok(PyDelSlice(l, row, row + count - 1))

\* dropMimeData's loop state: the list, the advancing row, and the number of
\* files met so far in traversal order.
\* A dropped file is "ok" (mutagen reads it), "bad" (a regular file mutagen
\* reads nothing from: mutagen.File returns None) or "gone" (os.path.isfile is
\* false).  The k-th file of the traversal, when read, yields FileTrack(k).
FileKinds == {"ok", "bad", "gone"}

FileTrack(k) == TrackNames[((k - 1) % NumTracks) + 1]

insertTrackPath(l, row, kind, k) ==
  IF kind = "ok" THEN insertTrack(l, row, FileTrack(k)).tracks ELSE l

\* One file of the traversal: the body shared by lines 312-314 and 319-321.
DropFile(st, kind, row_delta) ==
  IF kind # "gone"
    THEN [tracks |-> insertTrackPath(st.tracks, st.row, kind, st.k + 1),
          row |-> st.row + row_delta,
          k |-> st.k + 1]
    ELSE [st EXCEPT !.k = st.k + 1]

\* os.walk over a dropped directory, as the sequence of files it yields.
RECURSIVE DropWalk(_, _, _)
DropWalk(st, files, row_delta) ==
  IF files = <<>> THEN st
  ELSE DropWalk(DropFile(st, Head(files), row_delta), Tail(files), row_delta)

\* The loop over data.urls(): a url is a file or a directory of files.
RECURSIVE DropUrls(_, _, _)
DropUrls(st, urls, row_delta) ==
  IF urls = <<>> THEN st
  ELSE LET each == Head(urls)
           nxt == IF each.isdir
                    THEN DropWalk(st, each.files, row_delta)
                    ELSE DropFile(st, each.files[1], row_delta)
       IN  DropUrls(nxt, Tail(urls), row_delta)

dropMimeData(l, row, urls) ==
  LET row_delta == IF row >= 0 THEN 1 ELSE 0
  IN  Ok(DropUrls([tracks |-> l, row |-> row, k |-> 0], urls, row_delta).tracks)

\* ------------------------------------------------------- PlaylistTableView

\* sorted(...) over the selected rows.
RECURSIVE SortedRows(_)
SortedRows(S) ==
  IF S = {} THEN <<>>
  ELSE LET m == CHOOSE x \in S : \A y \in S : x <= y
       IN  <<m>> \o SortedRows(S \ {m})

\* is_contiguous accepting every selection.
is_contiguous_Always(seq) == TRUE

is_contiguous(seq) ==
  LET last == seq[1]
  IN  \A i \in 1..Len(seq) : ~(seq[i] # last + 1 /\ seq[i] # last)

\* The drop target of lines 672-681: hit is the row under the pointer (-1
\* when indexAt is invalid), lower whether the pointer is in the row's lower
\* half or below it.
DropTarget(l, hit, lower) ==
  IF hit < 0 THEN Len(l) ELSE hit + (IF lower THEN 1 ELSE 0)

\* The internal-move branch of dropEvent (the event comes from the view
\* itself, is not yet accepted and carries CopyAction).
dropEvent(l, selected, dest) ==
  LET moving == SortedRows(selected)
  IN  IF selected = {} THEN Ok(l)
      ELSE IF is_contiguous(moving)
        THEN LET start == moving[1]
                 count == Len(moving)
             IN  IF start + count # dest
                   THEN IF count > 1
                          THEN moveRows(l, start, count, dest)
                          ELSE moveRow(l, start, dest)
                   ELSE Ok(l)
      ELSE Ok(l)

\* currentTrack: the record it returns, and the exception it raised.
currentTrack(l, playing) ==
  IF playing >= 0
    THEN IF PyIndexOk(l, playing)
           THEN [track |-> l[PyIndex(l, playing) + 1], err |-> "none"]
           ELSE [track |-> "None", err |-> "IndexError"]
    ELSE [track |-> "None", err |-> "none"]

\* ------------------------------------------------------ change notifications

\* What an operation does to the model, statement by statement: a
\* notification is named by the signal or begin/end call that sends it, a
\* statement that changes _tracks is "change".
insertTrackSignals(l, row, track) ==
  <<"layoutAboutToBeChanged", "change", "layoutChanged">>

moveRowSignals(l, sourceRow, destinationChild) ==
  IF sourceRow # destinationChild
    THEN IF PyIndexOk(l, sourceRow)
           THEN <<"beginMoveRows", "change", "change", "endMoveRows">>
           ELSE <<"beginMoveRows">>
    ELSE <<"beginMoveRows", "endMoveRows">>

moveRowsSignals(l, sourceRow, count, destinationChild) ==
  <<"beginMoveRows", "change", "endMoveRows">>

removeRowSignals(l, row) ==
  IF PyIndexOk(l, row)
    THEN <<"beginRemoveRows", "change", "endRemoveRows">>
    ELSE <<"beginRemoveRows">>

removeRowsSignals(l, row, count) ==
  <<"beginRemoveRows", "change", "endRemoveRows">>

\* dropMimeData: one insertTrack for every file insertTrackPath reads.
RECURSIVE Repeated(_, _)
Repeated(seq, n) == IF n <= 0 THEN <<>> ELSE seq \o Repeated(seq, n - 1)

dropMimeDataSignals(l, row, urls) ==
  Repeated(insertTrackSignals(l, row, "any"),
           Len(dropMimeData(l, row, urls).tracks) - Len(l))

\* dropEvent: the signals of the move it dispatches to, if any.
dropEventSignals(l, moving, dest) ==
  IF moving = <<>> THEN <<>>
  ELSE IF is_contiguous(moving)
    THEN IF moving[1] + Len(moving) # dest
           THEN IF Len(moving) > 1
                  THEN moveRowsSignals(l, moving[1], Len(moving), dest)
                  ELSE moveRowSignals(l, moving[1], dest)
           ELSE <<>>
  ELSE <<>>

\* The signals of the call on the list l.
SignalsOf(call, l) ==
  CASE call.name = "insertTrack" -> insertTrackSignals(l, call.row, call.track)
    [] call.name = "moveRow" -> moveRowSignals(l, call.row, call.dest)
    [] call.name = "moveRows" -> moveRowsSignals(l, call.row, call.count, call.dest)
    [] call.name = "removeRow" -> removeRowSignals(l, call.row)
    [] call.name = "removeRows" -> removeRowsSignals(l, call.row, call.count)
    [] call.name = "dropMimeData" -> dropMimeDataSignals(l, call.row, call.urls)
    [] call.name = "dropEvent" -> dropEventSignals(l, call.moving, call.dest)
    [] OTHER -> <<>>

\* ----------------------------------------------- ColumnConfigurationLayout

\* The layout's state a handler leaves, and the exception it raised.
Layout(cols, cur, del, e) ==
  [columns |-> cols, currentRow |-> cur, deleteEnabled |-> del, err |-> e]

\* int(text), for the texts the width box is given.
PyIntOk(text) == text \in {"30", "180"}

PyInt(text) == IF text = "30" THEN 30 ELSE 180

handleColumnEdit(cols, cur, del, col, text) ==
  IF cur < 0 THEN Layout(cols, cur, del, "none")
  ELSE IF col = 0
    THEN Layout([cols EXCEPT ![cur + 1].name = text], cur, del, "none")
  ELSE IF col = 1
    THEN IF text = ""
           THEN Layout([cols EXCEPT ![cur + 1].defaultWidth = 0], cur, del, "none")
         ELSE IF PyIntOk(text)
           THEN Layout([cols EXCEPT ![cur + 1].defaultWidth = PyInt(text)],
                       cur, del, "none")
         ELSE Layout(cols, cur, del, "ValueError")
  ELSE IF col = 2
    THEN LET set == SetFmt(cols[cur + 1], text)
         IN  Layout([cols EXCEPT ![cur + 1] = set.col], cur, del, set.err)
  ELSE Layout(cols, cur, del, "IndexError")

onAddNewButtonClicked(cols, cur, del) ==
  LET enabled == IF Len(cols) = 1 THEN TRUE ELSE del
      added == Append(cols, NewPlaylistColumn)
  IN  Layout(added, Len(added) - 1, enabled, "none")

\* The guard of onDeleteButtonClicked, off by one.
DeleteRefused_Empty(cols) == Len(cols) <= 0

\* The guard of onDeleteButtonClicked.
DeleteRefused(cols) == Len(cols) <= 1

onDeleteButtonClicked(cols, cur, del) ==
  IF DeleteRefused(cols) THEN Layout(cols, cur, del, "InvalidActionError")
  ELSE IF cur >= 0
    THEN LET row == cur
             left == SubSeq(cols, 1, row) \o SubSeq(cols, row + 2, Len(cols))
         IN  IF row # Len(left)
               THEN Layout(left, cur, del, "none")
               ELSE Layout(left, row - 1,
                           IF Len(left) <= 1 THEN FALSE ELSE del, "none")
  ELSE Layout(cols, cur, del, "none")

onResetButtonClicked(cols, cur, del) == Layout(cols, cur, TRUE, "none")

\* ------------------------------------------------------------------- specs

\* No handler is running: control is in the Qt event loop.
Idle == [name |-> "idle"]

\* Row arguments the model passes: every row of the list, the position past
\* the end, and rows out of bounds on both sides.
RowArgs(l) == -2 .. (Len(l) + 1)

CountArgs(l) == 1 .. (Len(l) + 1)

\* The drop payloads the model passes: up to two urls, each a file or a
\* directory of up to two files.
UrlFile(kind) == [isdir |-> FALSE, files |-> <<kind>>]

UrlDir(files) == [isdir |-> TRUE, files |-> files]

DirListings ==
  {<<>>} \cup {<<a>> : a \in {"ok", "bad"}}
         \cup {<<a, b>> : a \in {"ok", "bad"}, b \in {"ok", "bad"}}

Urls == {UrlFile(kind) : kind \in FileKinds} \cup {UrlDir(fs) : fs \in DirListings}

Payloads == {<<u>> : u \in Urls} \cup {<<u, v>> : u \in Urls, v \in Urls}

Init ==
  /\ tracks = <<>>
  /\ old = <<>>
  /\ columns = SubSeq(DefaultColumns, 1, 1)
  /\ oldColumns = columns
  /\ currentRow = -1
  /\ deleteEnabled = TRUE
  /\ op = Idle
  /\ err = "none"
  /\ signals = <<>>
  /\ nowPlaying = -1
  /\ played = "none"

\* The handler returns (or its exception reaches hnl_exception_hook, which
\* reports it and keeps the application running): back to the event loop.
Return ==
  /\ op # Idle
  /\ op' = Idle
  /\ err' = "none"
  /\ old' = tracks
  /\ oldColumns' = columns
  /\ signals' = <<>>
  /\ UNCHANGED <<tracks, columns, currentRow, deleteEnabled, nowPlaying, played>>

\* The call leaves the track list res.tracks and raises res.err.
ListStep(call, res) ==
  /\ Len(res.tracks) <= MaxLen
  /\ old' = tracks
  /\ tracks' = res.tracks
  /\ err' = res.err
  /\ op' = call
  /\ signals' = SignalsOf(call, tracks)
  /\ UNCHANGED <<colVars, playVars>>

InsertTrack ==
  /\ op = Idle
  /\ \E row \in RowArgs(tracks), track \in Tracks :
       ListStep([name |-> "insertTrack", row |-> row, track |-> track],
                insertTrack(tracks, row, track))

MoveRow ==
  /\ op = Idle
  /\ \E s \in RowArgs(tracks), d \in RowArgs(tracks) :
       ListStep([name |-> "moveRow", row |-> s, count |-> 1, dest |-> d],
                moveRow(tracks, s, d))

MoveRows ==
  /\ op = Idle
  /\ \E s \in RowArgs(tracks), c \in CountArgs(tracks), d \in RowArgs(tracks) :
       ListStep([name |-> "moveRows", row |-> s, count |-> c, dest |-> d],
                moveRows(tracks, s, c, d))

RemoveRow ==
  /\ op = Idle
  /\ \E row \in RowArgs(tracks) :
       ListStep([name |-> "removeRow", row |-> row], removeRow(tracks, row))

RemoveRows ==
  /\ op = Idle
  /\ \E row \in RowArgs(tracks), c \in CountArgs(tracks) :
       ListStep([name |-> "removeRows", row |-> row, count |-> c],
                removeRows(tracks, row, c))

DropMimeData ==
  /\ op = Idle
  /\ \E row \in -1 .. Len(tracks), urls \in Payloads :
       ListStep([name |-> "dropMimeData", row |-> row, urls |-> urls],
                dropMimeData(tracks, row, urls))

DropEvent ==
  /\ op = Idle
  /\ \E selected \in SUBSET (0 .. Len(tracks) - 1),
        hit \in -1 .. Len(tracks) - 1, lower \in BOOLEAN :
       LET dest == DropTarget(tracks, hit, lower)
       IN  ListStep([name |-> "dropEvent", moving |-> SortedRows(selected),
                     dest |-> dest,
                     contiguous |-> selected # {}
                                    /\ is_contiguous(SortedRows(selected))],
                    dropEvent(tracks, selected, dest))

NextList ==
  \/ InsertTrack
  \/ MoveRow
  \/ MoveRows
  \/ RemoveRow
  \/ RemoveRows
  \/ DropMimeData
  \/ DropEvent
  \/ Return

SpecList == Init /\ [][NextList]_vars

\* onDoubleClicked on a valid index: play() makes its row the playing one.
Play ==
  /\ op = Idle
  /\ \E row \in 0 .. Len(tracks) - 1 :
       /\ nowPlaying' = row
       /\ played' = tracks[row + 1]
       /\ op' = [name |-> "play", row |-> row]
       /\ err' = "none"
       /\ old' = tracks
       /\ signals' = <<>>
       /\ UNCHANGED <<tracks, colVars>>

NextPlay ==
  \/ InsertTrack
  \/ MoveRow
  \/ MoveRows
  \/ RemoveRow
  \/ RemoveRows
  \/ DropMimeData
  \/ DropEvent
  \/ Play
  \/ Return

SpecPlay == Init /\ [][NextPlay]_vars

\* Texts typed into the name, width and format boxes.
NameTexts == {"Title"}

WidthTexts == {"180"}

FormatTexts == {"%title%", "$if("}

\* The layout is built over a copy of the playlist's columns: the default
\* columns, or a non-empty set saved from an earlier configuration.
InitColumns ==
  /\ tracks = <<>>
  /\ old = <<>>
  /\ \E k \in 1 .. Min(MaxCols, Len(DefaultColumns)) :
       columns = SubSeq(DefaultColumns, 1, k)
  /\ oldColumns = columns
  /\ currentRow = -1
  /\ deleteEnabled = TRUE
  /\ op = Idle
  /\ err = "none"
  /\ signals = <<>>
  /\ nowPlaying = -1
  /\ played = "none"

\* The handler leaves the layout as res.
LayoutStep(call, res) ==
  /\ oldColumns' = columns
  /\ columns' = res.columns
  /\ currentRow' = res.currentRow
  /\ deleteEnabled' = res.deleteEnabled
  /\ err' = res.err
  /\ op' = call
  /\ UNCHANGED <<listVars, signals, playVars>>

\* The user makes another row of the table the current one.
OnCurrentRowChanged ==
  /\ op = Idle
  /\ \E row \in 0 .. Len(columns) - 1 :
       /\ row # currentRow
       /\ LayoutStep([name |-> "onCurrentRowChanged", row |-> row],
                     Layout(columns, row, deleteEnabled, "none"))

EditTexts(col) ==
  IF col = 0 THEN NameTexts ELSE IF col = 1 THEN WidthTexts ELSE FormatTexts

HandleColumnEdit ==
  /\ op = Idle
  /\ \E col \in 0 .. 2 : \E text \in EditTexts(col) :
       LayoutStep([name |-> "handleColumnEdit", col |-> col, text |-> text],
                  handleColumnEdit(columns, currentRow, deleteEnabled, col, text))

OnAddNewButtonClicked ==
  /\ op = Idle
  /\ Len(columns) < MaxCols
  /\ LayoutStep([name |-> "onAddNewButtonClicked"],
                onAddNewButtonClicked(columns, currentRow, deleteEnabled))

\* A disabled button emits no click.
OnDeleteButtonClicked ==
  /\ op = Idle
  /\ deleteEnabled
  /\ LayoutStep([name |-> "onDeleteButtonClicked"],
                onDeleteButtonClicked(columns, currentRow, deleteEnabled))

OnResetButtonClicked ==
  /\ op = Idle
  /\ LayoutStep([name |-> "onResetButtonClicked"],
                onResetButtonClicked(columns, currentRow, deleteEnabled))

NextColumns ==
  \/ OnCurrentRowChanged
  \/ HandleColumnEdit
  \/ OnAddNewButtonClicked
  \/ OnDeleteButtonClicked
  \/ OnResetButtonClicked
  \/ Return

SpecColumns == InitColumns /\ [][NextColumns]_vars

\* ----------------------------------------------------- reference results

\* l[a:b] for 0 <= a, b <= Len(l).
Sub(l, a, b) == IF b <= a THEN <<>> ELSE SubSeq(l, a + 1, b)

\* The run of count rows from row s lies inside the list l.
InBoundsRun(l, s, count) == 0 <= s /\ count >= 1 /\ s + count <= Len(l)

\* The list with the run (s, count) relocated to begin at destination d,
\* d an index into the list before the run is taken out.
MoveRef(l, s, count, d) ==
  IF d < s
    THEN Sub(l, 0, d) \o Sub(l, s, s + count) \o Sub(l, d, s)
         \o Sub(l, s + count, Len(l))
    ELSE Sub(l, 0, s) \o Sub(l, s + count, d) \o Sub(l, s, s + count)
         \o Sub(l, d, Len(l))

Occurrences(l, t) == Cardinality({i \in DOMAIN l : l[i] = t})

\* The two lists hold the same records, each as often.
SameRecords(l, m) ==
  /\ Len(l) = Len(m)
  /\ \A t \in Tracks : Occurrences(l, t) = Occurrences(m, t)

\* The records of run appear in l in the order of run.
RECURSIVE InOrderWithin(_, _)
InOrderWithin(run, l) ==
  IF run = <<>> THEN TRUE
  ELSE IF l = <<>> THEN FALSE
  ELSE IF Head(run) = Head(l) THEN InOrderWithin(Tail(run), Tail(l))
  ELSE InOrderWithin(run, Tail(l))

\* Every element is the one before it, or the one before it plus one.
UnbrokenRun(seq) ==
  \A i \in 2 .. Len(seq) : seq[i] = seq[i - 1] \/ seq[i] = seq[i - 1] + 1

\* The files of a drop in traversal order.
RECURSIVE TraversalOf(_)
TraversalOf(urls) ==
  IF urls = <<>> THEN <<>> ELSE Head(urls).files \o TraversalOf(Tail(urls))

\* The tracks of the readable files among files, the first of which is the
\* k-th file of the traversal.
RECURSIVE ReadableTracks(_, _)
ReadableTracks(files, k) ==
  IF files = <<>> THEN <<>>
  ELSE (IF Head(files) = "ok" THEN <<FileTrack(k)>> ELSE <<>>)
       \o ReadableTracks(Tail(files), k + 1)

\* The list with the block ins put at row r, or at the end when r < 0.
DropRef(l, r, ins) ==
  LET p == IF r < 0 THEN Len(l) ELSE r
  IN  Sub(l, 0, p) \o ins \o Sub(l, p, Len(l))

\* l without the record at row p.
WithoutRow(l, p) == Sub(l, 0, p) \o Sub(l, p + 1, Len(l))

IsMove == op.name \in {"moveRow", "moveRows"}

\* ------------------------------------------------------------------ claims

\* C1: a move of an in-bounds run to a destination in 0..n outside the run
\* leaves the list equal to the reference result: the run relocated to begin
\* at the destination, everything else in its original order.
C1_MoveMatchesReference ==
  (/\ IsMove
   /\ InBoundsRun(old, op.row, op.count)
   /\ op.dest \in 0 .. Len(old)
   /\ (op.dest < op.row \/ op.dest > op.row + op.count))
  => /\ err = "none"
     /\ tracks = MoveRef(old, op.row, op.count, op.dest)

\* C2: is_contiguous, on a non-empty ascending sequence of rows, answers
\* true exactly when every element is the previous one or the previous one
\* plus one.
C2_ContiguousIffUnbrokenRun ==
  (op.name = "dropEvent" /\ op.moving # <<>>)
  => (op.contiguous <=> UnbrokenRun(op.moving))

\* C3: removeRows(index, count) on a fully in-bounds range deletes exactly
\* the count records from index: the length drops by count and the rest keep
\* their order.
C3_RemoveRowsDeletesCount ==
  (op.name = "removeRows" /\ InBoundsRun(old, op.row, op.count))
  => /\ Len(tracks) = Len(old) - op.count
     /\ tracks = Sub(old, 0, op.row) \o Sub(old, op.row + op.count, Len(old))

\* C4: a drop of files at row r (0 <= r <= n, or r < 0 for the end) inserts
\* one track per readable file and none per unreadable file, as one
\* contiguous block at r in traversal order, the records already present
\* keeping their order around it.
C4_DropInsertsOneBlock ==
  (op.name = "dropMimeData" /\ op.row <= Len(old))
  => /\ err = "none"
     /\ tracks = DropRef(old, op.row, ReadableTracks(TraversalOf(op.urls), 1))

\* C5: insertTrack never rejects its index: for 0 <= index <= n the record
\* at index afterwards is the inserted track, for index < 0 the track is the
\* last record, and in every case the list is one longer and the records
\* already present keep their order.
C5_InsertTrackPlacesRecord ==
  op.name = "insertTrack"
  => LET n == Len(old)
     IN  /\ err = "none"
         /\ Len(tracks) = n + 1
         /\ \E p \in 0 .. n :
              tracks[p + 1] = op.track /\ WithoutRow(tracks, p) = old
         /\ (0 <= op.row /\ op.row <= n)
              => /\ tracks[op.row + 1] = op.track
                 /\ WithoutRow(tracks, op.row) = old
         /\ op.row < 0
              => /\ tracks[n + 1] = op.track
                 /\ WithoutRow(tracks, n) = old

\* C5 witness: a track was inserted with a negative row into a list that
\* already held two records.
C5_Witness ==
  /\ op.name = "insertTrack"
  /\ op.row < 0
  /\ Len(old) >= 2
  /\ Len(tracks) = Len(old) + 1

\* C6: a move of an in-bounds run to any destination in 0..n leaves a
\* permutation of the list (same records, same length), the records of the
\* run in their order.
C6_MovePreservesPermutation ==
  (/\ IsMove
   /\ InBoundsRun(old, op.row, op.count)
   /\ op.dest \in 0 .. Len(old))
  => /\ SameRecords(old, tracks)
     /\ InOrderWithin(Sub(old, op.row, op.row + op.count), tracks)

\* C7: a move of an in-bounds run (s, c) to destination s or s + c leaves
\* the list unchanged, in moveRow, in moveRows and in the drop handler that
\* dispatches to them.
C7_BoundaryMovesAreNoOps ==
  /\ (/\ IsMove
      /\ InBoundsRun(old, op.row, op.count)
      /\ op.dest \in {op.row, op.row + op.count})
     => (tracks = old /\ err = "none")
  /\ (/\ op.name = "dropEvent"
      /\ op.moving # <<>>
      /\ \A i \in 1 .. Len(op.moving) : op.moving[i] = op.moving[1] + i - 1
      /\ op.dest \in {op.moving[1], op.moving[1] + Len(op.moving)})
     => (tracks = old /\ err = "none")

\* C8: in every state of a column the stored formatter is the compilation of
\* the stored template, and an assignment whose compilation fails leaves the
\* previous template and formatter in place.
C8_FormatterInSync ==
  /\ \A i \in DOMAIN columns : columns[i].tfc = Compile(columns[i].fmt)
  /\ err = "TemplateCompileError" => columns = oldColumns

\* C9: deleting a column when exactly one is left fails with
\* InvalidActionError and leaves the set unchanged, so the set always holds
\* at least one column.
C9_AtLeastOneColumn ==
  /\ Len(columns) >= 1
  /\ (op.name = "onDeleteButtonClicked" /\ Len(oldColumns) = 1)
     => (err = "InvalidActionError" /\ columns = oldColumns)

\* C9 witness: Delete was clicked with one column left and was refused.
C9_Witness ==
  /\ op.name = "onDeleteButtonClicked"
  /\ Len(oldColumns) = 1
  /\ err = "InvalidActionError"
  /\ columns = oldColumns

\* C10: a list operation given an out-of-bounds argument fails with an
\* out-of-range error and leaves the list unchanged: removeRow outside
\* 0..n-1, removeRows past the end, a move whose run or destination is
\* outside 0..n.
C10_OutOfBoundsRaises ==
  /\ (op.name = "removeRow" /\ op.row \notin 0 .. Len(old) - 1)
     => (err = "IndexError" /\ tracks = old)
  /\ (op.name = "removeRows" /\ op.row + op.count > Len(old))
     => (err = "IndexError" /\ tracks = old)
  /\ (IsMove /\ ~(InBoundsRun(old, op.row, op.count)
                  /\ op.dest \in 0 .. Len(old)))
     => (err = "IndexError" /\ tracks = old)

\* The notifications that open a change, each with the one that closes it.
Closing(begin) ==
  CASE begin = "layoutAboutToBeChanged" -> "layoutChanged"
    [] begin = "beginMoveRows" -> "endMoveRows"
    [] begin = "beginRemoveRows" -> "endRemoveRows"
    [] OTHER -> "none"

\* sig, read with the notification open still unanswered ("none" when there
\* is none), is properly bracketed: it changes the list only while a
\* notification is open, answers each by its match, and leaves none open.
RECURSIVE Bracketed(_, _)
Bracketed(sig, open) ==
  IF sig = <<>> THEN open = "none"
  ELSE IF Head(sig) = "change"
    THEN open # "none" /\ Bracketed(Tail(sig), open)
  ELSE IF Closing(Head(sig)) # "none"
    THEN open = "none" /\ Bracketed(Tail(sig), Head(sig))
  ELSE open # "none" /\ Closing(open) = Head(sig) /\ Bracketed(Tail(sig), "none")

\* C11: in every insertTrack, removeRow, removeRows, moveRow and moveRows
\* call, failed ones included, the list changes only between a pre-change
\* notification and its matching post-change notification, and every
\* pre-change notification sent is answered by its match before the call
\* returns or fails.
C11_NotificationsBracketed ==
  op.name \in {"insertTrack", "removeRow", "removeRows", "moveRow", "moveRows"}
  => Bracketed(signals, "none")

\* C12: a drop of dragged rows whose selection is not a contiguous run
\* attempts no reorder: no move is called, the list is as it was and no error
\* is raised.
C12_NonContiguousDropIsNoOp ==
  (op.name = "dropEvent" /\ op.moving # <<>> /\ ~UnbrokenRun(op.moving))
  => /\ tracks = old
     /\ err = "none"
     /\ signals = <<>>

\* C12 witness: rows that are no contiguous run were dropped on a list of at
\* least three records.
C12_Witness ==
  /\ op.name = "dropEvent"
  /\ Len(op.moving) >= 2
  /\ ~UnbrokenRun(op.moving)
  /\ Len(old) >= 3

\* C13: after any Add New, Delete or Reset click the Delete button is enabled
\* exactly when the layout holds more than one column, so no click on it
\* raises InvalidActionError.
C13_DeleteEnabledIffSeveral ==
  /\ op.name \in {"onAddNewButtonClicked", "onDeleteButtonClicked",
                  "onResetButtonClicked"}
     => (deleteEnabled <=> Len(columns) > 1)
  /\ err # "InvalidActionError"

\* C14: once play() has selected a track, whatever insertions, drops, moves
\* and removals follow, the now-playing index is -1 or an index into the
\* list, and while the played record is in the list currentTrack returns it.
\* (Records are told apart by their value: the second part is asked where
\* exactly one record of the played value is in the list.)
C14_NowPlayingFollowsRecord ==
  played # "none"
  => /\ nowPlaying = -1 \/ nowPlaying \in 0 .. Len(tracks) - 1
     /\ Occurrences(tracks, played) = 1
          => currentTrack(tracks, nowPlaying) = [track |-> played, err |-> "none"]

=============================================================================
